---- MODULE Spec2Model ----
(***************************************************************************)
(* State-machine model of the chat client of the knowledge-query pages:    *)
(*   - CognitoAuthManager (src/frontend/auth.js): the stored credential,   *)
(*     isAuthenticated, refreshAccessToken, getAccessToken / getIdToken;   *)
(*   - apiRequest of KnowledgeQueryApp (src/frontend/verification-plan.js) *)
(*     and of DoctoKnowApp (src/frontend/app.js);                          *)
(*   - AuthUIController (src/create-bedrock-agents-full.ps1): the expiry   *)
(*     timer, handleLogout and handleLogin;                                *)
(*   - the verification-plan page in one browser tab: page load and chat   *)
(*     session id, the search target dialog and its default-job lookups,   *)
(*     submitQuery with its poll loop, submitFeedback, loadHistoryDetail.  *)
(* JavaScript runs one handler at a time; a handler is interrupted only at *)
(* an await on a network operation.  Every action below is one such        *)
(* uninterrupted segment: from the call (or the arrival of the awaited     *)
(* result) up to the next network await, return or throw.                  *)
(***************************************************************************)
EXTENDS Integers, Sequences, FiniteSets, TLC

\* ---------------------------------------------------------------- bounds
\* number of apiRequest calls of one run (they may overlap)
MaxRequests == 2
\* number of token sets the identity provider issues in one run
MaxTokens == 3
\* page loads of the tab in one run
MaxLoads == 2
\* generateUUID() calls in one run
MaxUuids == 2
\* fallback message ids generated in one run
MaxLocalIds == 2
\* loadDefaultJobIdsForFolders calls that run at the same time
MaxLookups == 1
\* submitQuery calls that can run at once
MaxQueries == 2
\* submitFeedback calls that can run at once
MaxFeedbacks == 2
\* longest chat kept in memory
MaxMessages == 3
\* message ids the backend hands out
MaxServerIds == 2
\* status replies 'processing' a query gets where the backend is taken to answer soon
MaxProcessing == 1
\* the clock advances in steps of TickMs up to MaxNow
TickMs == 50
MaxNow == 100

\* refreshAccessToken calls of the expiry timer that can run at once
MaxBackground == 1

Requests == 1..MaxRequests

\* localStorage.getItem(...) of an absent key
NULL == [kind |-> "null", n |-> 0]
\* the n-th token set issued by the identity provider
AccessTokenOf(n) == [kind |-> "access", n |-> n]
IdTokenOf(n) == [kind |-> "id", n |-> n]
RefreshTokenOf(n) == [kind |-> "refresh", n |-> n]

\* HTTP statuses the backend answers with (fetch rejecting is a separate step)
Statuses == {200, 401, 500}
\* Response.ok
ok(status) == status >= 200 /\ status <= 299
\* what initiateAuth(REFRESH_TOKEN_AUTH) gives back
RefreshOutcomes == {"ok", "noresult", "NotAuthorizedException", "error"}

VARIABLES
    page,              \* which client's apiRequest runs: "verification" | "app"
    authManager,       \* this.authManager is set (not null)
    authUIController,  \* window.authUIController exists (app.js page)
    sdk,               \* this.cognitoIdentityServiceProvider is initialised
    cred,              \* localStorage: cognito_access_token, cognito_id_token,
                       \*   cognito_refresh_token, cognito_token_expires_at
    issued,            \* token sets issued so far by the identity provider
    req,               \* the apiRequest calls: position and what each has done
    bg,                \* refreshAccessToken calls of the expiry timer under way
    signedOut          \* handleLogout has signed out and nobody has signed in since

apiVars == <<page, authManager, authUIController, sdk, cred, issued, req, bg, signedOut>>

\* the verification-plan page (KnowledgeQueryApp + HistorySidebarManager) in
\* one browser tab
VARIABLES
    now,                          \* Date.now()
    loads,                        \* page loads of this tab so far
    ssLastPageLoadTime,           \* sessionStorage 'lastPageLoadTime'
    ssVerificationPlanSessionId,  \* sessionStorage 'verificationPlanSessionId'
    ssChatSessionId,              \* sessionStorage 'chatSessionId'
    lsSelectedFolderPaths,        \* localStorage 'selectedFolderPaths'
    lsSelectedJobId,              \* localStorage 'selectedJobId'
    uuids,                        \* generateUUID() results so far
    localIds,                     \* fallback message ids generated so far
    chatSessionId,                \* this.chatSessionId
    isHardRefresh,                \* this.isHardRefresh
    selectedFolderPaths,          \* this.selectedFolderPaths
    selectedJobId,                \* this.selectedJobId
    folderDefaultJobIds,          \* this.folderDefaultJobIds
    chatMessages,                 \* this.chatMessages
    submitQueryBtnDisabled,       \* elements.submitQueryBtn.disabled
    queryInputDisabled,           \* elements.queryInput.disabled
    lookup,                       \* running loadDefaultJobIdsForFolders calls
    hist,                         \* the running loadHistoryDetail call
    settled,                      \* the loadDefaultJobIdsForFolders call that completed last
    sent,                         \* the last request sent that carries chat_session_id
    abandoned,                    \* session ids a reset has replaced
    query,                        \* the submitQuery calls
    fb,                           \* the submitFeedback calls
    serverIds,                    \* message ids the backend has handed out
    rejected                      \* what the last submitQuery call refused with

storageVars == <<now, loads, ssLastPageLoadTime, ssVerificationPlanSessionId,
                 ssChatSessionId, lsSelectedFolderPaths, lsSelectedJobId>>
sessionVars == <<uuids, localIds, chatSessionId, sent, abandoned>>
selectionVars == <<isHardRefresh, selectedFolderPaths, selectedJobId,
                   folderDefaultJobIds>>
uiVars == <<chatMessages, submitQueryBtnDisabled, queryInputDisabled>>
taskVars == <<lookup, hist, settled>>
queryVars == <<query, fb, serverIds, rejected>>
chatVars == <<storageVars, sessionVars, selectionVars, uiVars, taskVars, queryVars>>

vars == <<apiVars, chatVars>>

\* ------------------------------------------------------- CognitoAuthManager
\* cognito_token_expires_at against Date.now(): "none" is an absent key,
\* "valid" more than five minutes ahead, "soon" less than five minutes ahead,
\* "expired" now >= expiryTime.
ExpiryStates == {"none", "valid", "soon", "expired"}

SignedOut == [access |-> NULL, id |-> NULL, refresh |-> NULL, expiry |-> "none"]

isAuthenticatedWhateverExpiry(c) == c.access /= NULL
\* auth.js isAuthenticated()
isAuthenticated(c) ==
    IF c.access = NULL THEN FALSE
    ELSE IF c.expiry /= "none" /\ c.expiry = "expired" THEN FALSE
    ELSE TRUE

\* auth.js isTokenExpiringSoon()
isTokenExpiringSoon(c) ==
    IF c.expiry = "none" THEN FALSE ELSE c.expiry \in {"soon", "expired"}

\* auth.js signOut(): removes every cognito_* key
signOut(c) == SignedOut

refreshReachesProviderWhenNoneRuns(c) ==
    /\ c.refresh /= NULL /\ sdk
    /\ \A r \in Requests : req[r].pc \notin {"preRefresh", "refresh401"}
    /\ bg = 0

\* refreshAccessToken() before the provider is called: the two early returns.
\* TRUE when initiateAuth is actually sent.
refreshReachesProvider(c) == c.refresh /= NULL /\ sdk

refreshStoreClearsOnAnyError(c, o, n) ==
    IF o = "ok"
    THEN [c EXCEPT !.access = AccessTokenOf(n), !.id = IdTokenOf(n), !.expiry = "valid"]
    ELSE signOut(c)

refreshStoreKeepsAll(c, o, n) ==
    IF o = "ok"
    THEN [c EXCEPT !.access = AccessTokenOf(n), !.id = IdTokenOf(n), !.expiry = "valid"]
    ELSE c

\* refreshAccessToken() after initiateAuth settled with outcome o, n being the
\* token set the provider issued: the stored credential afterwards.
refreshStore(c, o, n) ==
    CASE o = "ok" ->
            [c EXCEPT !.access = AccessTokenOf(n), !.id = IdTokenOf(n),
                      !.expiry = "valid"]
      [] o = "NotAuthorizedException" -> signOut(c)
      [] OTHER -> c

\* parseError(error): the text for the error's code, else error.message, else
\* the general text
parseError(o) ==
    IF o = "NotAuthorizedException" THEN "wrong-email-or-password" ELSE "error-message"

\* refreshAccessToken(): the structured result {success, message,
\* accessToken, idToken}
refreshResult(o, n) ==
    CASE o = "ok" ->
            [success |-> TRUE, message |-> "refreshed",
             accessToken |-> AccessTokenOf(n), idToken |-> IdTokenOf(n)]
      [] o = "noresult" ->
            [success |-> FALSE, message |-> "refresh-failed",
             accessToken |-> NULL, idToken |-> NULL]
      [] OTHER ->
            [success |-> FALSE, message |-> parseError(o),
             accessToken |-> NULL, idToken |-> NULL]

\* the result of the two early returns of refreshAccessToken()
FailedRefresh(c) ==
    [success |-> FALSE,
     message |-> IF c.refresh = NULL THEN "no-refresh-token" ELSE "sdk-not-initialised",
     accessToken |-> NULL, idToken |-> NULL]

\* ------------------------------------------------------------ apiRequest
\* the token getAccessToken() (verification-plan.js) / getIdToken() (app.js)
\* returns once isAuthenticated() holds: the stored one
getAccessToken(c) == c.access
getIdToken(c) == c.id
storedToken(c) == IF page = "verification" THEN getAccessToken(c) ELSE getIdToken(c)

\* the fallback without an auth manager: idToken || accessToken
\* (verification-plan.js), cognito_id_token (app.js)
fallbackToken(c) ==
    IF page = "verification"
    THEN (IF c.id /= NULL THEN c.id ELSE c.access)
    ELSE c.id

\* a resend that does not look at the refresh result
ResendAlways(result) == TRUE

\* the guard of the resend: refreshResult.success (verification-plan.js),
\* refreshResult.success && refreshResult.idToken (app.js)
ResendAllowed(result) ==
    IF page = "verification"
    THEN result.success
    ELSE result.success /\ result.idToken /= NULL

\* the header of the resend: a fresh getAccessToken() (verification-plan.js),
\* refreshResult.idToken (app.js)
resendToken(c, result) ==
    IF page = "verification" THEN getAccessToken(c) ELSE result.idToken

\* a resend whose response is handed to the caller whatever its status
RetryAcceptsAll(status) == TRUE

\* the resend's response is handed to the caller: retryResponse.ok
RetryAccepted(status) == ok(status)

\* routing to re-authentication: window.location.href = 'index.html'
\* (verification-plan.js), authUIController.showAuthenticationUI() when the
\* controller exists (app.js)
routesToLogin == IF page = "verification" THEN TRUE ELSE authUIController

\* app.js removes the four cognito_* keys before it throws
credAfterFailure(c) == IF page = "app" THEN SignedOut ELSE c

NewRequest ==
    [pc |-> "idle", hdr |-> NULL, sends |-> 0, resends |-> 0,
     refreshPre |-> 0, refresh401 |-> 0, first |-> 0, second |-> 0,
     mgr401 |-> "na", refreshed |-> "na", routed |-> FALSE,
     result |-> "none", status |-> 0]

\* the terminal throw of apiRequest with routing to re-authentication
Expired(r, rq, c, why) ==
    /\ req' = [req EXCEPT ![r] = [rq EXCEPT !.pc = "thrown", !.result = why,
                                            !.routed = routesToLogin]]
    /\ cred' = credAfterFailure(c)

\* fetch(url, {...options, headers}) is sent with token t
Send(r, rq, t, resend) ==
    req' = [req EXCEPT ![r] =
              [rq EXCEPT !.pc = IF resend THEN "fetch2" ELSE "fetch1",
                         !.hdr = t,
                         !.sends = @ + 1,
                         !.resends = IF resend THEN @ + 1 ELSE @]]

\* apiRequest from the token lookup up to the first await on the network
Prepare(r) ==
    IF authManager
    THEN IF isAuthenticated(cred)
         THEN /\ Send(r, req[r], storedToken(cred), FALSE)
              /\ UNCHANGED cred
         ELSE \* getAccessToken / getIdToken call refreshAccessToken
              IF refreshReachesProvider(cred)
              THEN /\ req' = [req EXCEPT ![r].pc = "preRefresh", ![r].refreshPre = @ + 1]
                   /\ UNCHANGED cred
              ELSE Expired(r, [req[r] EXCEPT !.refreshPre = @ + 1], cred, "session_expired")
    ELSE /\ Send(r, req[r], fallbackToken(cred), FALSE)
         /\ UNCHANGED cred

\* apiRequest(url, options) is called
ApiRequestCall(r) ==
    /\ req[r].pc = "idle"
    /\ \A q \in Requests : q < r => req[q].pc /= "idle"
    /\ IF page = "app" /\ ~authManager
       THEN /\ req' = [req EXCEPT ![r].pc = "waitAuth"]
            /\ UNCHANGED cred
       ELSE Prepare(r)
    /\ UNCHANGED <<page, authManager, authUIController, sdk, issued, chatVars, bg, signedOut>>

\* app.js waitForAuthManager() resolves: the manager appeared or 3 s passed
WaitAuthDone(r) ==
    /\ req[r].pc = "waitAuth"
    /\ Prepare(r)
    /\ UNCHANGED <<page, authManager, authUIController, sdk, issued, chatVars, bg, signedOut>>

\* the token set a refresh with outcome o stores
IssueFor(o) == IF o = "ok" THEN issued + 1 ELSE issued

\* the refresh started by getAccessToken / getIdToken settles
PreRefreshDone(r, o) ==
    /\ req[r].pc = "preRefresh"
    /\ o = "ok" => issued < MaxTokens
    /\ issued' = IssueFor(o)
    /\ LET c == refreshStore(cred, o, issued')
           result == refreshResult(o, issued')
       IN IF result.success
          THEN /\ Send(r, req[r], storedToken(c), FALSE)
               /\ cred' = c
          ELSE Expired(r, req[r], c, "session_expired")
    /\ UNCHANGED <<page, authManager, authUIController, sdk, chatVars, bg, signedOut>>

\* the first fetch is answered with an HTTP status
FetchResponds(r, status) ==
    /\ req[r].pc = "fetch1"
    /\ LET rq == [req[r] EXCEPT !.first = status] IN
       IF status = 401
       THEN IF authManager
            THEN IF refreshReachesProvider(cred)
                 THEN /\ req' = [req EXCEPT ![r] =
                                   [rq EXCEPT !.pc = "refresh401", !.mgr401 = "yes",
                                              !.refresh401 = @ + 1]]
                      /\ UNCHANGED cred
                 ELSE Expired(r, [rq EXCEPT !.mgr401 = "yes", !.refresh401 = @ + 1,
                                            !.refreshed = "failed"],
                              cred, "auth_error")
            ELSE Expired(r, [rq EXCEPT !.mgr401 = "no"], cred, "auth_error")
       ELSE /\ req' = [req EXCEPT ![r] =
                         [rq EXCEPT !.pc = "returned", !.result = "response",
                                    !.status = status]]
            /\ UNCHANGED cred
    /\ UNCHANGED <<page, authManager, authUIController, sdk, issued, chatVars, bg, signedOut>>

\* fetch rejects (network failure): the catch block rethrows
FetchRejects(r) ==
    /\ req[r].pc \in {"fetch1", "fetch2"}
    /\ req' = [req EXCEPT ![r].pc = "thrown", ![r].result = "network"]
    /\ UNCHANGED <<page, authManager, authUIController, sdk, cred, issued, chatVars, bg, signedOut>>

\* the refresh of the 401 branch settles
Refresh401Done(r, o) ==
    /\ req[r].pc = "refresh401"
    /\ o = "ok" => issued < MaxTokens
    /\ issued' = IssueFor(o)
    /\ LET c == refreshStore(cred, o, issued')
           result == refreshResult(o, issued')
           rq == [req[r] EXCEPT !.refreshed = IF result.success THEN "ok" ELSE "failed"]
       IN IF ResendAllowed(result)
          THEN /\ Send(r, rq, resendToken(c, result), TRUE)
               /\ cred' = c
          ELSE Expired(r, rq, c, "auth_error")
    /\ UNCHANGED <<page, authManager, authUIController, sdk, chatVars, bg, signedOut>>

\* the resend is answered with an HTTP status
RetryResponds(r, status) ==
    /\ req[r].pc = "fetch2"
    /\ LET rq == [req[r] EXCEPT !.second = status] IN
       IF RetryAccepted(status)
       THEN /\ req' = [req EXCEPT ![r] =
                         [rq EXCEPT !.pc = "returned", !.result = "response",
                                    !.status = status]]
            /\ UNCHANGED cred
       ELSE Expired(r, rq, cred, "auth_error")
    /\ UNCHANGED <<page, authManager, authUIController, sdk, issued, chatVars, bg, signedOut>>

\* checkAuthManager(): the page's auth manager becomes available
AttachAuthManager ==
    /\ ~authManager
    /\ page = "app" => authUIController
    /\ authManager' = TRUE
    /\ UNCHANGED <<page, authUIController, sdk, cred, issued, req, chatVars, bg, signedOut>>

\* window.authUIController = new AuthUIController()
CreateAuthUIController ==
    /\ page = "app"
    /\ ~authUIController
    /\ authUIController' = TRUE
    /\ UNCHANGED <<page, authManager, sdk, cred, issued, req, chatVars, bg, signedOut>>

\* time passes against cognito_token_expires_at
ClockAdvance ==
    /\ cred.expiry \in {"valid", "soon"}
    /\ cred' = [cred EXCEPT !.expiry = IF @ = "valid" THEN "soon" ELSE "expired"]
    /\ UNCHANGED <<page, authManager, authUIController, sdk, issued, req, chatVars, bg, signedOut>>

\* ------------------------------------------------------- AuthUIController
\* what makes a callback of startTokenExpiryCheck call refreshAccessToken:
\* the setInterval callback (every 3 minutes) when the token is expired or
\* expires soon, the setTimeout callback (after 30 s) when it expires soon
timerRefreshes(c, initial) ==
    IF initial THEN isTokenExpiringSoon(c)
    ELSE ~isAuthenticated(c) \/ isTokenExpiringSoon(c)

\* a timer of startTokenExpiryCheck fires, with a refresh to start
ExpiryCheck(initial) ==
    /\ authUIController
    /\ timerRefreshes(cred, initial)
    /\ IF refreshReachesProvider(cred)
       THEN bg < MaxBackground /\ bg' = bg + 1
       ELSE UNCHANGED bg
    /\ UNCHANGED <<page, authManager, authUIController, sdk, cred, issued, req,
                   signedOut, chatVars>>

\* the refresh the timer started settles; its result is only logged
BackgroundRefreshDone(o) ==
    /\ bg > 0
    /\ o = "ok" => issued < MaxTokens
    /\ issued' = IssueFor(o)
    /\ cred' = refreshStore(cred, o, issued')
    /\ bg' = bg - 1
    /\ UNCHANGED <<page, authManager, authUIController, sdk, req, signedOut, chatVars>>

\* handleLogout(): the user confirms, signOut() removes the keys
handleLogout ==
    /\ authUIController
    /\ cred' = signOut(cred)
    /\ signedOut' = TRUE
    /\ UNCHANGED <<page, authManager, authUIController, sdk, issued, req, bg, chatVars>>

\* signIn(): what a successful sign-in stores, n being the token set issued
signIn(n) ==
    [access |-> AccessTokenOf(n), id |-> IdTokenOf(n),
     refresh |-> RefreshTokenOf(n), expiry |-> "valid"]

\* handleLogin(): the provider accepted email and password
SignInDone ==
    /\ authUIController
    /\ sdk
    /\ issued < MaxTokens
    /\ issued' = issued + 1
    /\ cred' = signIn(issued')
    /\ signedOut' = FALSE
    /\ UNCHANGED <<page, authManager, authUIController, sdk, req, bg, chatVars>>


\* ------------------------------------------------------ the chat page: data
\* detectHardRefresh: (currentTime - parseInt(lastLoadTime)) < 100
HardRefreshThresholdMs == 100

Folders == {"A", "B"}
JobIds == {"g1"}
\* this.selectedJobId = null / localStorage key absent
NoJob == "null"
\* the text of the job id field of the dialog, trimmed
UserJobIds == {"j1"}

\* sessionStorage key absent
NoSession == [prefix |-> "none", uuid |-> 0]
\* 'verification_' + generateUUID()
VerificationSessionId(n) == [prefix |-> "verification_", uuid |-> n]
\* generateUUID()
BareSessionId(n) == [prefix |-> "", uuid |-> n]

\* performance.navigation.type
NavigationTypes == {0, 1, 2}

\* messageId of a message: none (null), supplied by the backend, or the
\* fallback `${timestamp}#${random}`
NoMessageId == [origin |-> "none", n |-> 0]
ServerMessageId(n) == [origin |-> "server", n |-> n]
LocalMessageId(n) == [origin |-> "local", n |-> n]

\* msg.rating of a message that has none.  Next to rating and comment a
\* message records shown, the rating its buttons show as selected, asked, the
\* rating of the last submitFeedback call made for it, and lost, whether a
\* request of such a call failed.
NoRating == 0
\* data-rating of the rating buttons
Ratings == {1, 2}
\* msg.comment of a message that has none, and the trimmed text of the
\* comment box
NoComment == ""
Comments == {"c"}

\* what the query box can hold, as a sequence of characters
QueryTexts == {<<>>, <<" ">>, <<"q">>, <<" ", "q", " ">>}

\* String.prototype.trim(): leading and trailing white space removed
RECURSIVE trimStart(_)
trimStart(t) ==
    IF t /= <<>> /\ Head(t) = " " THEN trimStart(Tail(t)) ELSE t

RECURSIVE trimEnd(_)
trimEnd(t) ==
    IF t /= <<>> /\ t[Len(t)] = " " THEN trimEnd(SubSeq(t, 1, Len(t) - 1)) ELSE t

trim(t) == trimEnd(trimStart(t))

\* object property assignment obj[k] = v on an object held as a set of pairs
Put(obj, k, v) == {e \in obj : e[1] /= k} \cup {<<k, v>>}
Keys(obj) == {e[1] : e \in obj}

Range(seq) == {seq[i] : i \in 1..Len(seq)}

\* array.filter(p => p !== x)
RECURSIVE Without(_, _)
Without(seq, x) ==
    IF seq = <<>> THEN <<>>
    ELSE IF Head(seq) = x THEN Without(Tail(seq), x)
    ELSE <<Head(seq)>> \o Without(Tail(seq), x)

\* ------------------------------------------------------ addChatMessage
\* addChatMessage(role, content, sources, messageId) for each message of a
\* list; an assistant message without id gets the next fallback id.
\* Returns the new chatMessages; FallbackCount is how many ids it generated.
NeedsFallbackNever(role, messageId) == FALSE
\* if (!messageId && role === 'assistant')
NeedsFallback(role, messageId) == messageId = NoMessageId /\ role = "assistant"

\* renderChatHistory(): the chat is drawn again from chatMessages; shown, the
\* rating whose button carries the class 'active', is msg.rating again
renderChatHistory(msgs) ==
    [k \in 1..Len(msgs) |-> [msgs[k] EXCEPT !.shown = msgs[k].rating]]

addChatMessage(msgs, role, content, messageId, nextLocal) ==
    renderChatHistory(
        Append(msgs,
               [role |-> role, content |-> content,
                messageId |-> IF NeedsFallback(role, messageId)
                              THEN LocalMessageId(nextLocal) ELSE messageId,
                rating |-> NoRating, comment |-> NoComment, shown |-> NoRating,
                asked |-> NoRating, lost |-> FALSE]))

RECURSIVE addAll(_, _, _)
addAll(msgs, items, nextLocal) ==
    IF items = <<>> THEN msgs
    ELSE addAll(addChatMessage(msgs, Head(items).role, Head(items).content,
                               NoMessageId, nextLocal),
                Tail(items),
                IF NeedsFallback(Head(items).role, NoMessageId)
                THEN nextLocal + 1 ELSE nextLocal)

FallbackCount(items) == Cardinality({i \in 1..Len(items) : items[i].role = "assistant"})

\* --------------------------------------------- loadDefaultJobIdsForFolders
\* One running call: arr is the array the for-of loop iterates, alias tells
\* whether this.selectedFolderPaths still is that array object, i the index of
\* the folder whose /default-job request is awaited, got what each request
\* returned, cont what awaits the call (applySearchTarget, loadHistoryDetail
\* or nothing: the unawaited call of loadSearchTargetFromStorage), alone
\* whether no other call ran meanwhile.
IdleLookup ==
    [pc |-> "idle", arr |-> <<>>, alias |-> FALSE, i |-> 0, got |-> {},
     cont |-> "none", alone |-> FALSE]

Lookups == 1..MaxLookups
FreeLookup(l) == lookup[l].pc = "idle" /\ \A k \in Lookups : k < l => lookup[k].pc /= "idle"

\* what a /default-job request gives: a job id, no job id (data.job_id
\* empty), a non-ok response, or apiRequest throwing
LookupOutcomes == JobIds \cup {"nojob", "notok", "throw"}

\* the call starts on array arr (non-empty): this.folderDefaultJobIds = {} and
\* the first request is sent
StartedLookups(lk, l, arr, cont) ==
    [k \in Lookups |->
        IF k = l
        THEN [pc |-> "await", arr |-> arr, alias |-> TRUE, i |-> 1, got |-> {},
              cont |-> cont,
              alone |-> \A j \in Lookups : lk[j].pc = "idle"]
        ELSE [lk[k] EXCEPT !.alone = FALSE]]

StoredAlways(map, path, o) == Put(map, path, o)
\* the map after the awaited request of call l returned o
StoredDefault(map, path, o) == IF o \in JobIds THEN Put(map, path, o) ELSE map

\* every running call loses its alias when this.selectedFolderPaths becomes a
\* new array
Unaliased(lk) == [k \in Lookups |-> [lk[k] EXCEPT !.alias = FALSE]]

\* selectedFolderPaths.push(p) is seen by the loops that iterate that array
Pushed(lk, p) ==
    [k \in Lookups |->
        IF lk[k].pc = "await" /\ lk[k].alias
        THEN [lk[k] EXCEPT !.arr = Append(@, p)]
        ELSE lk[k]]


\* ---------------------------------------------- submitQuery calls, data
\* const maxAttempts = 60
maxAttempts == 60

Queries == 1..MaxQueries

\* the body of the start request: an absent property is NoJob, <<>> or {}
NoBody ==
    [chat_session_id |-> NoSession, jobId |-> NoJob, selected_job_id |-> NoJob,
     folder_paths |-> <<>>, folder_default_job_ids |-> {}]

\* One submitQuery call: attempts is the loop counter, polls the number of
\* status requests sent, body the body of the start request while that request
\* is under way, outcome how the call ended: "completed" with the answer
\* appended, any other outcome in the catch block, which shows it as the
\* error message; sid is the chat_session_id the start request carried,
\* kept while the call runs.
IdleQuery ==
    [pc |-> "idle", attempts |-> 0, polls |-> 0, body |-> NoBody, outcome |-> "none",
     sid |-> NoSession]

\* ------------------------------------------- submitFeedback calls, data
Feedbacks == 1..MaxFeedbacks

IdleFeedback ==
    [pc |-> "idle", messageId |-> NoMessageId, rating |-> NoRating,
     comment |-> NoComment]

\* the call that completed last, while nothing has touched the selection or
\* started another call since: got is what it learnt, clean whether it ran
\* alone and over what is the selection at its end
NoSettled == [done |-> FALSE, got |-> {}, clean |-> FALSE]

\* ------------------------------------------------------------- page load
Loaded == loads > 0

\* detectHardRefresh(): last is sessionStorage 'lastPageLoadTime' (<<>> when
\* absent), t is Date.now(), perf tells whether performance.navigation exists
detectHardRefresh(last, t, perf, navType) ==
    LET isReload == last /= <<>> /\ (t - last[1]) < HardRefreshThresholdMs
    IN IF perf THEN (~isReload) \/ navType = 1 ELSE ~isReload

\* initializeChatSession(): the id in sessionStorage, or a new prefixed one
initializeChatSession(stored, n) ==
    IF stored = NoSession THEN VerificationSessionId(n) ELSE stored

\* The running loadHistoryDetail call: h is the history it got, answer what
\* the user answered to its confirm() dialog ("none" when there was no
\* dialog); an idle call with answer "no" is one the user has just declined.
IdleHist ==
    [pc |-> "idle", answer |-> "none",
     h |-> [hasFolders |-> FALSE, folders |-> <<>>, job |-> NoJob,
            sid |-> NoSession, messages |-> <<>>]]

\* a request that carries chat_session_id
Request(kind, sid) == [kind |-> kind, sid |-> sid, stale |-> sid \in abandoned]
NoRequest == [kind |-> "none", sid |-> NoSession, stale |-> FALSE]

\* new KnowledgeQueryApp(config); new HistorySidebarManager(app): the page is
\* loaded (or loaded again) in the tab
PageLoad(perf, navType) ==
    /\ loads < MaxLoads
    /\ ssVerificationPlanSessionId = NoSession => uuids < MaxUuids
    /\ loads' = loads + 1
    /\ LET hard == detectHardRefresh(ssLastPageLoadTime, now, perf, navType)
           sid == initializeChatSession(ssVerificationPlanSessionId, uuids + 1)
       IN /\ ssLastPageLoadTime' = <<now>>
          /\ isHardRefresh' = hard
          /\ uuids' = IF ssVerificationPlanSessionId = NoSession THEN uuids + 1 ELSE uuids
          /\ ssVerificationPlanSessionId' = sid
          /\ chatSessionId' = sid
          \* loadSearchTargetFromStorage()
          /\ IF hard
             THEN /\ lsSelectedFolderPaths' = <<>>
                  /\ lsSelectedJobId' = NoJob
                  /\ selectedFolderPaths' = <<>>
                  /\ selectedJobId' = NoJob
                  /\ queryInputDisabled' = TRUE
                  /\ lookup' = [l \in Lookups |-> IdleLookup]
             ELSE /\ UNCHANGED <<lsSelectedFolderPaths, lsSelectedJobId>>
                  /\ selectedFolderPaths' = lsSelectedFolderPaths
                  /\ selectedJobId' = lsSelectedJobId
                  /\ queryInputDisabled' = (lsSelectedFolderPaths = <<>>)
                  /\ lookup' = IF lsSelectedFolderPaths /= <<>>
                               THEN StartedLookups([l \in Lookups |-> IdleLookup], 1,
                                                   lsSelectedFolderPaths, "none")
                               ELSE [l \in Lookups |-> IdleLookup]
          \* HistorySidebarManager: loadHistories()
          /\ sent' = Request("get-history", sid)
    /\ folderDefaultJobIds' = {}
    /\ chatMessages' = <<>>
    /\ submitQueryBtnDisabled' = FALSE
    /\ hist' = IdleHist
    /\ settled' = NoSettled
    /\ query' = [q \in Queries |-> IdleQuery]
    /\ fb' = [f \in Feedbacks |-> IdleFeedback]
    /\ rejected' = "none"
    /\ UNCHANGED <<now, ssChatSessionId, localIds, abandoned, serverIds>>
    /\ UNCHANGED apiVars

\* time passes
Tick ==
    /\ now + TickMs <= MaxNow
    /\ now' = now + TickMs
    /\ UNCHANGED <<loads, ssLastPageLoadTime, ssVerificationPlanSessionId,
                   ssChatSessionId, lsSelectedFolderPaths, lsSelectedJobId>>
    /\ UNCHANGED <<sessionVars, selectionVars, uiVars, taskVars, apiVars, queryVars>>

\* ------------------------------------------------------- resetChatSession
\* resetChatSession() when doReset, nothing otherwise
resetChatSession(doReset) ==
    IF doReset
    THEN /\ uuids < MaxUuids
         /\ uuids' = uuids + 1
         /\ chatSessionId' = BareSessionId(uuids + 1)
         /\ ssChatSessionId' = BareSessionId(uuids + 1)
         /\ chatMessages' = <<>>
         /\ abandoned' = abandoned \cup {chatSessionId}
    ELSE UNCHANGED <<uuids, chatSessionId, ssChatSessionId, chatMessages, abandoned>>

\* click on the reset button
ResetChat ==
    /\ Loaded
    /\ resetChatSession(TRUE)
    /\ UNCHANGED <<now, loads, ssLastPageLoadTime, ssVerificationPlanSessionId,
                   lsSelectedFolderPaths, lsSelectedJobId>>
    /\ UNCHANGED <<localIds, sent, selectionVars, submitQueryBtnDisabled,
                   queryInputDisabled, taskVars, apiVars, queryVars>>

\* ------------------------------------------------------ the folder dialog
\* toggleFolderSelection(folderPath, isSelected) from a checkbox or a tag
ToggleFolder(p, isSelected) ==
    /\ Loaded
    /\ IF isSelected
       THEN /\ p \notin Range(selectedFolderPaths)
            /\ selectedFolderPaths' = Append(selectedFolderPaths, p)
            /\ lookup' = Pushed(lookup, p)
       ELSE /\ p \in Range(selectedFolderPaths)
            /\ selectedFolderPaths' = Without(selectedFolderPaths, p)
            /\ lookup' = Unaliased(lookup)
    /\ settled' = NoSettled
    /\ UNCHANGED <<storageVars, sessionVars, isHardRefresh, selectedJobId,
                   folderDefaultJobIds, uiVars, hist, apiVars, queryVars>>

\* JSON.stringify(a.sort()) !== JSON.stringify([...b].sort()): the two arrays
\* differ as multisets
SortedDiffer(a, b) ==
    \E x \in Range(a) \cup Range(b) :
        Cardinality({i \in 1..Len(a) : a[i] = x}) /= Cardinality({i \in 1..Len(b) : b[i] = x})

\* applySearchTarget() up to its await: newJobId is the trimmed job id field,
\* confirmed the answer to the confirm() dialog
ApplySearchTarget(newJobId, confirmed) ==
    /\ Loaded
    /\ selectedFolderPaths /= <<>>
    /\ LET hasActiveSession == chatMessages /= <<>>
           foldersChanged == SortedDiffer(lsSelectedFolderPaths, selectedFolderPaths)
           jobIdChanged == lsSelectedJobId /= newJobId
           asks == hasActiveSession /\ (foldersChanged \/ jobIdChanged)
       IN /\ asks => confirmed
          /\ resetChatSession(asks)
    /\ selectedJobId' = newJobId
    /\ lsSelectedFolderPaths' = selectedFolderPaths
    /\ lsSelectedJobId' = newJobId
    /\ \E l \in Lookups :
          /\ FreeLookup(l)
          /\ lookup' = StartedLookups(lookup, l, selectedFolderPaths, "apply")
    /\ folderDefaultJobIds' = {}
    /\ settled' = NoSettled
    /\ UNCHANGED <<now, loads, ssLastPageLoadTime, ssVerificationPlanSessionId>>
    /\ UNCHANGED <<localIds, sent, isHardRefresh, selectedFolderPaths,
                   submitQueryBtnDisabled, queryInputDisabled, hist, apiVars, queryVars>>

\* applySearchTarget() after its await
ApplyFinish ==
    /\ queryInputDisabled' = FALSE
    /\ UNCHANGED <<selectedJobId, lsSelectedJobId, chatSessionId, ssChatSessionId,
                   abandoned, chatMessages, localIds, hist>>

\* ------------------------------------------------------ loadHistoryDetail
\* what get-history-detail can answer with
Histories ==
    [hasFolders : BOOLEAN, folders : {<<>>, <<"A">>}, job : {NoJob} \cup UserJobIds,
     sid : {NoSession} \cup abandoned \cup {chatSessionId},
     messages : {<<>>,
                 <<[role |-> "assistant", content |-> <<"a">>]>>,
                 <<[role |-> "user", content |-> <<"q">>],
                   [role |-> "assistant", content |-> <<"a">>]>>}]

\* loadHistoryDetail() after the selection was restored: job id, session id
\* and messages; sel is this.selectedFolderPaths at that time
HistoryFinish(h, sel) ==
    /\ selectedJobId' = h.job
    /\ lsSelectedJobId' = h.job
    /\ IF h.sid /= NoSession
       THEN /\ chatSessionId' = h.sid
            /\ ssChatSessionId' = h.sid
            /\ abandoned' = abandoned \ {h.sid}
       ELSE UNCHANGED <<chatSessionId, ssChatSessionId, abandoned>>
    /\ chatMessages' = addAll(<<>>, h.messages, localIds + 1)
    /\ localIds' = localIds + FallbackCount(h.messages)
    /\ queryInputDisabled' = IF sel /= <<>> THEN FALSE ELSE queryInputDisabled
    /\ hist' = IdleHist

ProceedsAlways(hasActiveSession, confirmed) == TRUE
\* if (hasActiveSession) { if (!confirmed) return; }
Proceeds(hasActiveSession, confirmed) == ~hasActiveSession \/ confirmed

\* click on a history item: confirmed is the answer to confirm()
HistoryDetailCall(confirmed) ==
    /\ Loaded
    /\ hist.pc = "idle"
    /\ LET hasActiveSession == chatMessages /= <<>>
           answer == IF ~hasActiveSession THEN "none"
                     ELSE IF confirmed THEN "yes" ELSE "no"
       IN IF Proceeds(hasActiveSession, confirmed)
          THEN /\ hist' = [hist EXCEPT !.pc = "fetch", !.answer = answer]
               /\ sent' = Request("get-history-detail", chatSessionId)
          ELSE /\ hist' = [IdleHist EXCEPT !.answer = "no"]
               /\ UNCHANGED sent
    /\ UNCHANGED <<storageVars, uuids, localIds, chatSessionId, abandoned,
                   selectionVars, uiVars, lookup, settled, apiVars, queryVars>>

\* the request failed: response not ok, no data.history, or a throw
HistoryDetailFails ==
    /\ hist.pc = "fetch"
    /\ hist' = IdleHist
    /\ UNCHANGED <<storageVars, sessionVars, selectionVars, uiVars, lookup,
                   settled, apiVars, queryVars>>

\* the request answered with history h
HistoryDetailResponds(h) ==
    /\ hist.pc = "fetch"
    /\ localIds + FallbackCount(h.messages) <= MaxLocalIds
    /\ h.hasFolders \/ h.folders = <<>>
    /\ IF h.hasFolders
       THEN /\ selectedFolderPaths' = h.folders
            /\ lsSelectedFolderPaths' = h.folders
            /\ folderDefaultJobIds' = {}
            /\ settled' = NoSettled
            /\ IF h.folders = <<>>
               THEN /\ lookup' = Unaliased(lookup)
                    /\ HistoryFinish(h, h.folders)
               ELSE /\ \E l \in Lookups :
                          /\ FreeLookup(l)
                          /\ lookup' = StartedLookups(Unaliased(lookup), l, h.folders, "history")
                    /\ hist' = [pc |-> "lookup", answer |-> hist.answer, h |-> h]
                    /\ UNCHANGED <<selectedJobId, lsSelectedJobId, chatSessionId,
                                   ssChatSessionId, abandoned, chatMessages, localIds,
                                   queryInputDisabled>>
       ELSE /\ HistoryFinish(h, selectedFolderPaths)
            /\ UNCHANGED <<selectedFolderPaths, lsSelectedFolderPaths,
                           folderDefaultJobIds, settled, lookup>>
    /\ UNCHANGED <<now, loads, ssLastPageLoadTime, ssVerificationPlanSessionId>>
    /\ UNCHANGED <<uuids, sent, isHardRefresh, submitQueryBtnDisabled, apiVars, queryVars>>

\* ------------------------------------- loadDefaultJobIdsForFolders, a step
\* the awaited /default-job request of call l returns o
LookupResponds(l, o) ==
    /\ lookup[l].pc = "await"
    /\ LET lk == lookup[l]
           path == lk.arr[lk.i]
           got == lk.got \cup {<<path, IF o \in JobIds THEN o ELSE NoJob>>}
       IN /\ folderDefaultJobIds' = StoredDefault(folderDefaultJobIds, path, o)
          /\ IF lk.i < Len(lk.arr)
             THEN /\ lookup' = [lookup EXCEPT ![l].i = @ + 1, ![l].got = got]
                  /\ UNCHANGED <<settled, selectedJobId, lsSelectedJobId, chatSessionId,
                                 ssChatSessionId, abandoned, chatMessages, localIds,
                                 queryInputDisabled, hist>>
             ELSE /\ lookup' = [lookup EXCEPT ![l] = IdleLookup]
                  /\ settled' = [done |-> TRUE, got |-> got,
                                 clean |-> lk.alone /\ lk.arr = selectedFolderPaths]
                  /\ CASE lk.cont = "apply" -> ApplyFinish
                       [] lk.cont = "history" -> HistoryFinish(hist.h, selectedFolderPaths)
                       [] OTHER ->
                            UNCHANGED <<selectedJobId, lsSelectedJobId, chatSessionId,
                                        ssChatSessionId, abandoned, chatMessages, localIds,
                                        queryInputDisabled, hist>>
    /\ UNCHANGED <<now, loads, ssLastPageLoadTime, ssVerificationPlanSessionId,
                   lsSelectedFolderPaths>>
    /\ UNCHANGED <<uuids, sent, isHardRefresh, selectedFolderPaths,
                   submitQueryBtnDisabled, apiVars, queryVars>>

\* ------------------------------------------------------------ submitQuery
Running(q) == query[q].pc \in {"start", "sleep", "status"}
FreeQuery(q) == ~Running(q) /\ \A k \in Queries : k < q => Running(k)

ScopedToNothing(jobId) == FALSE
\* if (this.selectedJobId)
ScopedByJob(jobId) == jobId /= NoJob

\* requestBody as submitQuery builds it
requestBody ==
    IF ScopedByJob(selectedJobId)
    THEN [NoBody EXCEPT !.chat_session_id = chatSessionId,
                        !.jobId = selectedJobId,
                        !.selected_job_id = selectedJobId]
    ELSE [NoBody EXCEPT !.chat_session_id = chatSessionId,
                        !.folder_paths = selectedFolderPaths,
                        !.folder_default_job_ids = folderDefaultJobIds]

RefusesNothing(text, paths) == "none"
\* the two checks submitQuery makes before it touches anything: text is the
\* trimmed content of the query box
Refuses(text, paths) ==
    IF text = <<>> THEN "empty-query"
    ELSE IF paths = <<>> THEN "no-folder"
    ELSE "none"

LoopContinuesOnceMore(attempts, completed) == attempts <= maxAttempts /\ ~completed
\* while (attempts < maxAttempts && !completed)
LoopContinues(attempts, completed) == attempts < maxAttempts /\ ~completed

\* the Enter key in the query box, or a click on the submit button, with
\* text in the query box
SubmitQuery(q, via, text) ==
    /\ Loaded
    /\ FreeQuery(q)
    /\ via = "click" => ~submitQueryBtnDisabled
    /\ via = "enter" => ~queryInputDisabled
    /\ rejected' = Refuses(trim(text), selectedFolderPaths)
    /\ IF Refuses(trim(text), selectedFolderPaths) /= "none"
       THEN UNCHANGED <<query, chatMessages, submitQueryBtnDisabled,
                        queryInputDisabled, sent>>
       ELSE /\ Len(chatMessages) + 1 < MaxMessages
            /\ submitQueryBtnDisabled' = TRUE
            /\ queryInputDisabled' = TRUE
            /\ chatMessages' = addChatMessage(chatMessages, "user", trim(text),
                                              NoMessageId, localIds + 1)
            /\ query' = [query EXCEPT ![q] = [IdleQuery EXCEPT !.pc = "start",
                                                              !.body = requestBody,
                                                              !.sid = chatSessionId]]
            /\ sent' = Request("start", chatSessionId)
    /\ UNCHANGED <<storageVars, uuids, localIds, chatSessionId, abandoned,
                   selectionVars, taskVars, fb, serverIds, apiVars>>

\* catch (error) { showMessage } finally { both controls enabled }
Thrown(q, outcome) ==
    /\ query' = [query EXCEPT ![q].pc = "done", ![q].outcome = outcome,
                              ![q].body = NoBody, ![q].sid = NoSession]
    /\ submitQueryBtnDisabled' = FALSE
    /\ queryInputDisabled' = FALSE

StartedAlways(o) == TRUE
\* the call gets past the start request: apiRequest returned and
\* startResponse.ok
Started(o) == o = "ok"

\* the start request returns: ok, not ok, or apiRequest throws
StartResponds(q, o) ==
    /\ query[q].pc = "start"
    /\ IF Started(o)
       THEN \* LoopContinues(0, FALSE): the first round starts its 3 s wait
            /\ query' = [query EXCEPT ![q].pc = "sleep", ![q].attempts = 1,
                                      ![q].body = NoBody]
            /\ UNCHANGED <<submitQueryBtnDisabled, queryInputDisabled>>
       ELSE Thrown(q, "start-error")
    /\ UNCHANGED <<storageVars, sessionVars, selectionVars, chatMessages,
                   taskVars, fb, serverIds, rejected, apiVars>>

\* the 3 s are over: the status request is sent
TimerFires(q) ==
    /\ query[q].pc = "sleep"
    /\ query' = [query EXCEPT ![q].pc = "status", ![q].polls = @ + 1]
    /\ UNCHANGED <<storageVars, sessionVars, selectionVars, uiVars, taskVars,
                   fb, serverIds, rejected, apiVars>>

StatusReplies == {"processing", "completed", "failed", "notok", "throw"}

statusBranchWithoutFailed(o) ==
    CASE o = "completed" -> "completed"
      [] o \in {"notok", "throw"} -> "error"
      [] OTHER -> "continue"
\* which way the loop body goes on a reply: apiRequest threw or the response
\* is not ok, statusData.status === 'completed', === 'failed', or anything else
statusBranch(o) ==
    CASE o = "completed" -> "completed"
      [] o = "failed" -> "failed"
      [] o \in {"notok", "throw"} -> "error"
      [] OTHER -> "continue"

\* the status request returns o; hasId tells whether a completed answer
\* carries message_id
StatusResponds(q, o, hasId) ==
    /\ query[q].pc = "status"
    /\ CASE statusBranch(o) = "completed" ->
                 /\ Len(chatMessages) < MaxMessages
                 /\ IF hasId THEN serverIds < MaxServerIds ELSE localIds < MaxLocalIds
                 /\ LET mid == IF hasId THEN ServerMessageId(serverIds + 1) ELSE NoMessageId
                        msgs == addChatMessage(chatMessages, "assistant", <<"a">>, mid, localIds + 1)
                    IN /\ chatMessages' = msgs
                       /\ query' = [query EXCEPT ![q].pc = "done",
                                                 ![q].outcome = "completed",
                                                 ![q].sid = NoSession]
                 /\ serverIds' = IF hasId THEN serverIds + 1 ELSE serverIds
                 /\ localIds' = IF hasId THEN localIds ELSE localIds + 1
                 /\ submitQueryBtnDisabled' = FALSE
                 /\ queryInputDisabled' = FALSE
            [] statusBranch(o) = "continue" /\ LoopContinues(query[q].attempts, FALSE) ->
                 /\ query' = [query EXCEPT ![q].pc = "sleep", ![q].attempts = @ + 1]
                 /\ UNCHANGED <<chatMessages, serverIds, localIds,
                                submitQueryBtnDisabled, queryInputDisabled>>
            [] OTHER ->
                 /\ query' = [query EXCEPT ![q].pc = "done", ![q].sid = NoSession,
                        ![q].outcome = CASE statusBranch(o) = "continue" -> "timeout"
                                         [] statusBranch(o) = "failed" -> "failed"
                                         [] OTHER -> "status-error"]
                 /\ submitQueryBtnDisabled' = FALSE
                 /\ queryInputDisabled' = FALSE
                 /\ UNCHANGED <<chatMessages, serverIds, localIds>>
    /\ UNCHANGED <<storageVars, uuids, chatSessionId, sent, abandoned,
                   selectionVars, taskVars, fb, rejected, apiVars>>

\* --------------------------------------------------------- submitFeedback
FreeFeedback(f) == fb[f].pc = "idle" /\ \A k \in Feedbacks : k < f => fb[k].pc /= "idle"

\* message i's feedback buttons are used: a click on rating button `rating`
\* (comment is NoComment) or on the send button of the comment panel with the
\* trimmed text `comment` (rating is NoRating).  The buttons exist for an
\* assistant message with a messageId.  The rating listener first moves the
\* class 'active' to the clicked button; then the request is sent.
SubmitFeedback(f, i, rating, comment) ==
    /\ Loaded
    /\ FreeFeedback(f)
    /\ i \in 1..Len(chatMessages)
    /\ chatMessages[i].role = "assistant"
    /\ chatMessages[i].messageId /= NoMessageId
    /\ (rating = NoRating) /= (comment = NoComment)
    /\ fb' = [fb EXCEPT ![f] = [pc |-> "await", messageId |-> chatMessages[i].messageId,
                                rating |-> rating, comment |-> comment]]
    /\ chatMessages' = [k \in 1..Len(chatMessages) |->
                          IF rating = NoRating THEN chatMessages[k]
                          ELSE IF k = i
                          THEN [chatMessages[k] EXCEPT !.asked = rating, !.shown = rating]
                          ELSE IF chatMessages[k].messageId = chatMessages[i].messageId
                          THEN [chatMessages[k] EXCEPT !.asked = rating]
                          ELSE chatMessages[k]]
    /\ sent' = Request("update-feedback", chatSessionId)
    /\ UNCHANGED <<storageVars, uuids, localIds, chatSessionId, abandoned,
                   selectionVars, submitQueryBtnDisabled, queryInputDisabled,
                   taskVars, query, serverIds, rejected, apiVars>>

findFirstMessage(msgs, messageId) == IF msgs = <<>> THEN 0 ELSE 1
\* index of chatMessages.find(m => m.messageId === messageId), 0 if none
find(msgs, messageId) ==
    IF \E k \in 1..Len(msgs) : msgs[k].messageId = messageId
    THEN CHOOSE k \in 1..Len(msgs) :
            /\ msgs[k].messageId = messageId
            /\ \A j \in 1..(k - 1) : msgs[j].messageId /= messageId
    ELSE 0

ConfirmedAlways(o) == TRUE
\* the local update is reached: apiRequest returned and response.ok
Confirmed(o) == o = "ok"

\* the feedback request returns: ok, not ok, or apiRequest throws
FeedbackResponds(f, o) ==
    /\ fb[f].pc = "await"
    /\ fb' = [fb EXCEPT ![f] = IdleFeedback]
    /\ LET k == find(chatMessages, fb[f].messageId)
       IN chatMessages' =
            IF Confirmed(o)
            THEN IF k = 0 THEN chatMessages
                 ELSE [chatMessages EXCEPT
                         ![k].rating = IF fb[f].rating /= NoRating
                                       THEN fb[f].rating ELSE @,
                         ![k].comment = IF fb[f].comment /= NoComment
                                        THEN fb[f].comment ELSE @]
            ELSE [j \in 1..Len(chatMessages) |->
                     IF chatMessages[j].messageId = fb[f].messageId
                     THEN [chatMessages[j] EXCEPT !.lost = TRUE]
                     ELSE chatMessages[j]]
    /\ UNCHANGED <<storageVars, sessionVars, selectionVars, submitQueryBtnDisabled,
                   queryInputDisabled, taskVars, query, serverIds, rejected, apiVars>>

\* ------------------------------------------------------------ initial states
\* no request in flight, signed in: the state of the credential side while
\* the page's own behaviour is studied
ApiIdle ==
    /\ page = "verification"
    /\ authManager = TRUE
    /\ authUIController = FALSE
    /\ sdk = TRUE
    /\ cred = [access |-> AccessTokenOf(1), id |-> IdTokenOf(1),
               refresh |-> RefreshTokenOf(1), expiry |-> "valid"]
    /\ issued = 1
    /\ req = [r \in Requests |-> NewRequest]
    /\ bg = 0
    /\ signedOut = FALSE

\* a tab that has not loaded the page yet; localStorage may hold the selection
\* an earlier visit left
BlankTab ==
    /\ now = 0
    /\ loads = 0
    /\ ssLastPageLoadTime = <<>>
    /\ ssVerificationPlanSessionId = NoSession
    /\ ssChatSessionId = NoSession
    /\ uuids = 0
    /\ localIds = 0
    /\ chatSessionId = NoSession
    /\ isHardRefresh = FALSE
    /\ selectedFolderPaths = <<>>
    /\ selectedJobId = NoJob
    /\ folderDefaultJobIds = {}
    /\ chatMessages = <<>>
    /\ submitQueryBtnDisabled = FALSE
    /\ queryInputDisabled = FALSE
    /\ lookup = [l \in Lookups |-> IdleLookup]
    /\ hist = IdleHist
    /\ settled = NoSettled
    /\ sent = NoRequest
    /\ abandoned = {}
    /\ query = [q \in Queries |-> IdleQuery]
    /\ fb = [f \in Feedbacks |-> IdleFeedback]
    /\ serverIds = 0
    /\ rejected = "none"

InitSession ==
    /\ ApiIdle
    /\ BlankTab
    /\ lsSelectedFolderPaths \in {<<>>, <<"A">>}
    /\ lsSelectedJobId \in {NoJob} \cup UserJobIds

NextSession ==
    \/ Tick
    \/ \E perf \in BOOLEAN, navType \in NavigationTypes : PageLoad(perf, navType)
    \/ ResetChat
    \/ \E j \in {NoJob} \cup UserJobIds, c \in BOOLEAN : ApplySearchTarget(j, c)
    \/ \E l \in Lookups, o \in LookupOutcomes : LookupResponds(l, o)
    \/ \E c \in BOOLEAN : HistoryDetailCall(c)
    \/ HistoryDetailFails
    \/ \E h \in Histories : HistoryDetailResponds(h)

SpecSession == InitSession /\ [][NextSession]_vars

\* the page right after its first load in a tab: the load counts as a hard
\* refresh, so nothing is selected and the query box is disabled
FirstLoaded ==
    /\ now = 0
    /\ loads = 1
    /\ ssLastPageLoadTime = <<0>>
    /\ ssVerificationPlanSessionId = VerificationSessionId(1)
    /\ ssChatSessionId = NoSession
    /\ lsSelectedFolderPaths = <<>>
    /\ lsSelectedJobId = NoJob
    /\ uuids = 1
    /\ localIds = 0
    /\ chatSessionId = VerificationSessionId(1)
    /\ isHardRefresh = TRUE
    /\ selectedFolderPaths = <<>>
    /\ selectedJobId = NoJob
    /\ folderDefaultJobIds = {}
    /\ chatMessages = <<>>
    /\ submitQueryBtnDisabled = FALSE
    /\ queryInputDisabled = TRUE
    /\ lookup = [l \in Lookups |-> IdleLookup]
    /\ hist = IdleHist
    /\ settled = NoSettled
    /\ sent = [kind |-> "get-history", sid |-> VerificationSessionId(1), stale |-> FALSE]
    /\ abandoned = {}
    /\ query = [q \in Queries |-> IdleQuery]
    /\ fb = [f \in Feedbacks |-> IdleFeedback]
    /\ serverIds = 0
    /\ rejected = "none"

\* the page after its first load, once the user has ticked folder A and
\* applied the search target with job id j, and the lookup answered d
Ready(j, d) ==
    /\ now = 0
    /\ loads = 1
    /\ ssLastPageLoadTime = <<0>>
    /\ ssVerificationPlanSessionId = VerificationSessionId(1)
    /\ ssChatSessionId = NoSession
    /\ lsSelectedFolderPaths = <<"A">>
    /\ lsSelectedJobId = j
    /\ uuids = 1
    /\ localIds = 0
    /\ chatSessionId = VerificationSessionId(1)
    /\ isHardRefresh = TRUE
    /\ selectedFolderPaths = <<"A">>
    /\ selectedJobId = j
    /\ folderDefaultJobIds = StoredDefault({}, "A", d)
    /\ chatMessages = <<>>
    /\ submitQueryBtnDisabled = FALSE
    /\ queryInputDisabled = FALSE
    /\ lookup = [l \in Lookups |-> IdleLookup]
    /\ hist = IdleHist
    /\ settled = [done |-> TRUE, got |-> {<<"A", d>>}, clean |-> TRUE]
    /\ sent = [kind |-> "get-history", sid |-> VerificationSessionId(1), stale |-> FALSE]
    /\ abandoned = {}
    /\ query = [q \in Queries |-> IdleQuery]
    /\ fb = [f \in Feedbacks |-> IdleFeedback]
    /\ serverIds = 0
    /\ rejected = "none"

\* the search target: folder dialog, default-job lookups, and the start
\* request built from them
InitTarget == ApiIdle /\ FirstLoaded

\* in the specifications that are not about the poll loop the backend answers
\* 'processing' at most MaxProcessing times per query
AnswersSoon(q, o) == o = "processing" => query[q].attempts <= MaxProcessing

NextTarget ==
    \/ \E p \in Folders, b \in BOOLEAN : ToggleFolder(p, b)
    \/ \E j \in {NoJob} \cup UserJobIds, c \in BOOLEAN : ApplySearchTarget(j, c)
    \/ \E l \in Lookups, o \in LookupOutcomes : LookupResponds(l, o)
    \/ \E via \in {"click", "enter"}, text \in QueryTexts : SubmitQuery(1, via, text)
    \/ \E o \in {"ok", "notok", "throw"} : StartResponds(1, o)
    \/ TimerFires(1)
    \/ \E o \in StatusReplies, hasId \in BOOLEAN : AnswersSoon(1, o) /\ StatusResponds(1, o, hasId)

SpecTarget == InitTarget /\ [][NextTarget]_vars

\* the poll loop of one query
InitPoll == ApiIdle /\ \E d \in JobIds \cup {NoJob} : Ready(NoJob, d)

NextPoll ==
    \/ \E via \in {"click", "enter"}, text \in QueryTexts : SubmitQuery(1, via, text)
    \/ \E o \in {"ok", "notok", "throw"} : StartResponds(1, o)
    \/ TimerFires(1)
    \/ \E o \in StatusReplies, hasId \in BOOLEAN : StatusResponds(1, o, hasId)
    \/ ResetChat

SpecPoll == InitPoll /\ [][NextPoll]_vars

\* concurrent submitQuery calls next to the search target dialog and the
\* reset button
InitChat == ApiIdle /\ \E d \in JobIds \cup {NoJob} : Ready(NoJob, d)

NextChat ==
    \/ \E q \in Queries, via \in {"click", "enter"}, text \in QueryTexts : SubmitQuery(q, via, text)
    \/ \E q \in Queries, o \in {"ok", "notok", "throw"} : StartResponds(q, o)
    \/ \E q \in Queries : TimerFires(q)
    \/ \E q \in Queries, o \in StatusReplies, hasId \in BOOLEAN :
          AnswersSoon(q, o) /\ StatusResponds(q, o, hasId)
    \/ \E j \in {NoJob} \cup UserJobIds, c \in BOOLEAN : ApplySearchTarget(j, c)
    \/ \E l \in Lookups, o \in LookupOutcomes : LookupResponds(l, o)
    \/ ResetChat

SpecChat == InitChat /\ [][NextChat]_vars

\* feedback on the answers of one query after the other
InitFeedback == ApiIdle /\ \E d \in JobIds \cup {NoJob} : Ready(NoJob, d)

NextFeedback ==
    \/ \E via \in {"click", "enter"}, text \in QueryTexts : SubmitQuery(1, via, text)
    \/ \E o \in {"ok", "notok", "throw"} : StartResponds(1, o)
    \/ TimerFires(1)
    \/ \E o \in StatusReplies, hasId \in BOOLEAN : AnswersSoon(1, o) /\ StatusResponds(1, o, hasId)
    \/ \E f \in Feedbacks, i \in 1..MaxMessages, r \in Ratings :
          SubmitFeedback(f, i, r, NoComment)
    \/ \E f \in Feedbacks, i \in 1..MaxMessages, c \in Comments :
          SubmitFeedback(f, i, NoRating, c)
    \/ \E f \in Feedbacks, o \in {"ok", "notok", "throw"} : FeedbackResponds(f, o)

SpecFeedback == InitFeedback /\ [][NextFeedback]_vars

\* one chat session and what touches its transcript while everything works:
\* a query, ratings and comments on the answers, the reset button and the
\* history sidebar
InitTranscript == ApiIdle /\ \E d \in JobIds \cup {NoJob} : Ready(NoJob, d)

\* a history saved without folder selection and without job id: loading it
\* starts no default-job lookup
StoresNoTarget(h) == ~h.hasFolders /\ h.job = NoJob

NextTranscript ==
    \/ \E via \in {"click", "enter"} : SubmitQuery(1, via, <<" ", "q", " ">>)
    \/ \E o \in {"ok", "notok", "throw"} : StartResponds(1, o)
    \/ TimerFires(1)
    \/ \E o \in StatusReplies, hasId \in BOOLEAN : AnswersSoon(1, o) /\ StatusResponds(1, o, hasId)
    \/ \E i \in 1..MaxMessages : SubmitFeedback(1, i, 1, NoComment)
    \/ \E i \in 1..MaxMessages, c \in Comments : SubmitFeedback(1, i, NoRating, c)
    \/ FeedbackResponds(1, "ok")
    \/ ResetChat
    \/ \E c \in BOOLEAN : HistoryDetailCall(c)
    \/ HistoryDetailFails
    \/ \E h \in Histories : StoresNoTarget(h) /\ HistoryDetailResponds(h)

SpecTranscript == InitTranscript /\ [][NextTranscript]_vars

\* history loads and feedback requests that may fail, on transcripts that
\* come from the history sidebar
InitFailures == ApiIdle /\ \E d \in JobIds \cup {NoJob} : Ready(NoJob, d)

NextFailures ==
    \/ \E c \in BOOLEAN : HistoryDetailCall(c)
    \/ HistoryDetailFails
    \/ \E h \in Histories : HistoryDetailResponds(h)
    \/ \E l \in Lookups, o \in LookupOutcomes : LookupResponds(l, o)
    \/ \E i \in 1..MaxMessages, r \in Ratings : SubmitFeedback(1, i, r, NoComment)
    \/ \E i \in 1..MaxMessages, c \in Comments : SubmitFeedback(1, i, NoRating, c)
    \/ \E o \in {"ok", "notok", "throw"} : FeedbackResponds(1, o)
    \/ ResetChat

SpecFailures == InitFailures /\ [][NextFailures]_vars

SignedIn(e) ==
    [access |-> AccessTokenOf(1), id |-> IdTokenOf(1),
     refresh |-> RefreshTokenOf(1), expiry |-> e]

InitApi ==
    /\ page \in {"verification", "app"}
    /\ authUIController \in BOOLEAN
    /\ authManager \in BOOLEAN
    /\ page = "verification" => ~authUIController
    /\ (page = "app" /\ authManager) => authUIController
    /\ sdk \in BOOLEAN
    /\ cred \in {SignedOut} \cup {SignedIn(e) : e \in {"valid", "expired"}}
    /\ issued = 1
    /\ req = [r \in Requests |-> NewRequest]
    /\ bg = 0
    /\ signedOut = FALSE
    /\ BlankTab
    /\ lsSelectedFolderPaths = <<>>
    /\ lsSelectedJobId = NoJob

NextApi ==
    \/ \E r \in Requests : ApiRequestCall(r)
    \/ \E r \in Requests : WaitAuthDone(r)
    \/ \E r \in Requests, o \in RefreshOutcomes : PreRefreshDone(r, o)
    \/ \E r \in Requests, s \in Statuses : FetchResponds(r, s)
    \/ \E r \in Requests : FetchRejects(r)
    \/ \E r \in Requests, o \in RefreshOutcomes : Refresh401Done(r, o)
    \/ \E r \in Requests, s \in Statuses : RetryResponds(r, s)
    \/ AttachAuthManager
    \/ CreateAuthUIController
    \/ ClockAdvance

SpecApi == InitApi /\ [][NextApi]_vars

\* the page with the sign-in dialog: apiRequest calls next to the expiry
\* timer, the logout button and the login form
InitAuth ==
    /\ page = "app"
    /\ authUIController = TRUE
    /\ authManager = TRUE
    /\ sdk = TRUE
    /\ cred \in {SignedIn(e) : e \in {"valid", "expired"}}
    /\ issued = 1
    /\ req = [r \in Requests |-> NewRequest]
    /\ bg = 0
    /\ signedOut = FALSE
    /\ BlankTab
    /\ lsSelectedFolderPaths = <<>>
    /\ lsSelectedJobId = NoJob

NextAuth ==
    \/ \E r \in Requests : ApiRequestCall(r)
    \/ \E r \in Requests, o \in RefreshOutcomes : PreRefreshDone(r, o)
    \/ \E r \in Requests, s \in Statuses : FetchResponds(r, s)
    \/ \E r \in Requests : FetchRejects(r)
    \/ \E r \in Requests, o \in RefreshOutcomes : Refresh401Done(r, o)
    \/ \E r \in Requests, s \in Statuses : RetryResponds(r, s)
    \/ ClockAdvance
    \/ \E initial \in BOOLEAN : ExpiryCheck(initial)
    \/ \E o \in RefreshOutcomes : BackgroundRefreshDone(o)
    \/ handleLogout
    \/ SignInDone

SpecAuth == InitAuth /\ [][NextAuth]_vars

\* ------------------------------------------------------ claims on apiRequest
finished(r) == req[r].pc \in {"returned", "thrown"}

\* C1 as stated: every apiRequest call whose first response is 401 makes
\* exactly one refreshAccessToken call and exactly one resend, whether the
\* refresh or the resend succeeds or fails.
C1_ExactlyOneRefreshAndResend ==
    \A r \in Requests :
        (finished(r) /\ req[r].first = 401) =>
            /\ req[r].refreshPre + req[r].refresh401 = 1
            /\ req[r].resends = 1

\* C1 amended: after a first response of 401 the call makes at most one
\* refreshAccessToken call (exactly one when an auth manager is attached, none
\* otherwise) and at most one resend, and the resend happens exactly when that
\* refresh reported success.
C1_RefreshRetryOnce ==
    \A r \in Requests :
        req[r].first = 401 =>
            /\ req[r].refresh401 <= 1
            /\ req[r].resends <= 1
            /\ req[r].sends = 1 + req[r].resends
            /\ req[r].refresh401 = (IF req[r].mgr401 = "yes" THEN 1 ELSE 0)
            /\ finished(r) =>
                 req[r].resends = (IF req[r].refreshed = "ok" THEN 1 ELSE 0)

\* a call that got 401, refreshed, resent and got 401 again
C1_Witness ==
    \E r \in Requests :
        /\ req[r].pc = "thrown"
        /\ req[r].first = 401
        /\ req[r].refreshed = "ok"
        /\ req[r].second = 401
        /\ req[r].resends = 1

\* C8: when the refresh of the 401 branch fails, or the resend is answered
\* 401 again, apiRequest has thrown its session-expired error and routed the
\* user to re-authentication, with one refresh call and no send beyond the
\* first send (refresh failed) or the single resend.
C8_ExpiredIsTerminal ==
    \A r \in Requests :
        (req[r].refreshed = "failed" \/ req[r].second = 401) =>
            /\ req[r].pc = "thrown"
            /\ req[r].result = "auth_error"
            /\ req[r].routed
            /\ req[r].refresh401 = 1
            /\ req[r].sends = (IF req[r].refreshed = "failed" THEN 1 ELSE 2)

\* both cases of C8 have happened: one call whose refresh failed and one whose
\* resend was answered 401
C8_Witness ==
    /\ \E r \in Requests : req[r].refreshed = "failed" /\ req[r].pc = "thrown"
    /\ \E r \in Requests : req[r].second = 401 /\ req[r].pc = "thrown"

\* ------------------------------------------------- claims on the session id
\* a step that loads the page again in the tab
Reloads == loads' = loads + 1 /\ loads >= 1
\* a step in which resetChatSession() ran
Resets == uuids' = uuids + 1 /\ loads' = loads

\* C4: a reload less than 100 ms after the last recorded load keeps the chat
\* session id, and a load at or after the threshold that resumes no folder
\* selection gives a chat session id different from the previous one.
C4_ReloadKeepsOrRenewsSession ==
    [][Reloads =>
        LET elapsed == now - ssLastPageLoadTime[1]
        IN /\ elapsed < HardRefreshThresholdMs => chatSessionId' = chatSessionId
           /\ (elapsed >= HardRefreshThresholdMs /\ selectedFolderPaths' = <<>>)
                  => chatSessionId' /= chatSessionId]_vars

\* C9: resetChatSession() replaces the session id by a new, different one, and
\* no later request of the tab is sent under an id that a reset has left,
\* unless that history was loaded again since.
C9_ResetAbandonsOldId ==
    /\ [][Resets => /\ chatSessionId' /= chatSessionId
                    /\ chatSessionId' \notin abandoned']_vars
    /\ [](~sent.stale)

\* C10: the current session id of a loaded page, generated on first load or
\* by a reset, carries the prefix 'verification_'.
C10_SessionIdHasModePrefix ==
    Loaded => chatSessionId.prefix = "verification_"

\* ------------------------------------------------------ claims on submitQuery
InFlight == {q \in Queries : Running(q)}

\* C2: at most one query is being started or polled at any time, whatever the
\* user does meanwhile with the search target dialog or the reset button.
C2_SingleQueryInFlight == Cardinality(InFlight) <= 1

\* a step in which the status request of call q is answered
StatusAnswered(q) == query[q].pc = "status" /\ query'[q] /= query[q]
TimedOut(q) == query'[q].pc = "done" /\ query'[q].outcome = "timeout"

Starts(q) == query[q].pc /= "start" /\ query'[q].pc = "start"

\* C5: with a job id set and folders selected, the start request carries that
\* job id as jobId and selected_job_id, and neither folder_paths nor
\* folder_default_job_ids.
C5_ExplicitJobScopesAlone ==
    [][\A q \in Queries :
          (Starts(q) /\ selectedJobId /= NoJob /\ selectedFolderPaths /= <<>>)
          => /\ query'[q].body.jobId = selectedJobId
             /\ query'[q].body.selected_job_id = selectedJobId
             /\ query'[q].body.folder_paths = <<>>
             /\ query'[q].body.folder_default_job_ids = {}]_vars

C5_Witness ==
    \E q \in Queries :
        /\ query[q].pc = "start"
        /\ query[q].body.jobId = "j1"
        /\ query[q].body.folder_paths = <<>>
        /\ Len(selectedFolderPaths) = 2
        /\ folderDefaultJobIds /= {}

\* the defaults a completed lookup learnt
KnownDefaults(got) == {e \in got : e[2] /= NoJob}

\* C7: with no job id set, once the lookup for the selection has completed
\* (it overlapped no other lookup, it went over the folders that are selected
\* at its end, and nothing was toggled since), the map holds exactly the selected
\* paths for which the lookup got a default job id, each with that id; and the
\* start request then carries the selection and that map.
C7_FilterMapIsKnownDefaults ==
    /\ []((settled.done /\ settled.clean /\ selectedJobId = NoJob)
            => /\ folderDefaultJobIds = KnownDefaults(settled.got)
               /\ Keys(settled.got) = Range(selectedFolderPaths))
    /\ [][\A q \in Queries :
            (Starts(q) /\ selectedJobId = NoJob)
            => /\ query'[q].body.jobId = NoJob
               /\ query'[q].body.folder_paths = selectedFolderPaths
               /\ query'[q].body.folder_default_job_ids = folderDefaultJobIds]_vars

C7_Witness ==
    /\ settled.done /\ settled.clean
    /\ selectedJobId = NoJob
    /\ selectedFolderPaths = <<"A", "B">>
    /\ settled.got = {<<"A", "g1">>, <<"B", NoJob>>}
    /\ folderDefaultJobIds = {<<"A", "g1">>}
    /\ \E q \in Queries : query[q].pc = "start" /\ query[q].body.folder_default_job_ids = {<<"A", "g1">>}

\* C11: every start request carries an explicit job id or at least one
\* (folder path, default job id) pair; none goes out with folder paths and no
\* pair at all.
C11_StartRequestIsScoped ==
    \A q \in Queries :
        query[q].pc = "start" =>
            \/ query[q].body.jobId /= NoJob
            \/ query[q].body.folder_default_job_ids /= {}


\* ---------------------------------------------------- claims on submitFeedback
\* C6: when no feedback request is under way, a message whose feedback
\* requests all succeeded carries the rating of the last submitFeedback call
\* made for it.
C6_RatingIsLastSubmitted ==
    (\A f \in Feedbacks : fb[f].pc = "idle")
    => \A i \in 1..Len(chatMessages) :
          (chatMessages[i].asked /= NoRating /\ ~chatMessages[i].lost)
          => chatMessages[i].rating = chatMessages[i].asked

\* ------------------------------------------------------ claims on the transcript
\* what addChatMessage fixes of a message for good
Fixed(m) == [role |-> m.role, content |-> m.content, messageId |-> m.messageId]

\* a step in which loadHistoryDetail replaces the transcript
HistoryLoads == hist.pc \in {"fetch", "lookup"} /\ hist'.pc = "idle" /\ ~HistoryDetailFails
\* a step that switches the session: reset, history load, or the page loaded anew
Switches == Resets \/ HistoryLoads \/ loads' /= loads

\* C12: between two session switches every step keeps the messages already in
\* the transcript, in their order, adds messages only at the end, and changes
\* of an existing message nothing but rating and comment, and these only on
\* an assistant message.
C12_TranscriptAppendOnly ==
    [][~Switches =>
          /\ Len(chatMessages') >= Len(chatMessages)
          /\ \A i \in 1..Len(chatMessages) :
                /\ Fixed(chatMessages'[i]) = Fixed(chatMessages[i])
                /\ (\/ chatMessages'[i].rating /= chatMessages[i].rating
                    \/ chatMessages'[i].comment /= chatMessages[i].comment)
                   => chatMessages[i].role = "assistant"]_vars

\* a transcript of three messages whose first answer was rated and commented
\* before the next question and its answer were appended
C12_Witness ==
    /\ Len(chatMessages) = 3
    /\ chatMessages[1].role = "assistant"
    /\ chatMessages[1].rating /= NoRating
    /\ chatMessages[1].comment /= NoComment
    /\ chatMessages[2].role = "user"
    /\ chatMessages[3].role = "assistant"

\* C13: every assistant message of the transcript has a messageId, the one of
\* the status response when it has one and a locally generated one otherwise;
\* so every message with a rating or a comment has a messageId.
C13_AssistantHasMessageId ==
    /\ [](\A i \in 1..Len(chatMessages) :
            /\ chatMessages[i].role = "assistant" => chatMessages[i].messageId /= NoMessageId
            /\ (chatMessages[i].rating /= NoRating \/ chatMessages[i].comment /= NoComment)
                  => chatMessages[i].messageId /= NoMessageId)
    /\ [][\A q \in Queries, hasId \in BOOLEAN :
            StatusResponds(q, "completed", hasId)
            => chatMessages'[Len(chatMessages')].messageId.origin
                  = (IF hasId THEN "server" ELSE "local")]_vars

\* an answer that got a fallback id and was rated under it
C13_Witness ==
    \E i \in 1..Len(chatMessages) :
        /\ chatMessages[i].role = "assistant"
        /\ chatMessages[i].messageId.origin = "local"
        /\ chatMessages[i].rating /= NoRating

\* the feedback an existing message carries and shows
Feedback(m) == [rating |-> m.rating, comment |-> m.comment, shown |-> m.shown]

\* C14: a message's rating and comment, and the rating its buttons show as
\* selected, change only in the step in which an update-feedback request is
\* answered ok; the step in which such a request fails changes none of them.
C14_NoFeedbackBeforeConfirmed ==
    /\ [][(\E i \in 1..Len(chatMessages) :
              /\ i <= Len(chatMessages')
              /\ Feedback(chatMessages'[i]) /= Feedback(chatMessages[i]))
          => \E f \in Feedbacks : FeedbackResponds(f, "ok")]_vars
    /\ [][(\E f \in Feedbacks, o \in {"notok", "throw"} : FeedbackResponds(f, o))
          => \A i \in 1..Len(chatMessages) :
                Feedback(chatMessages'[i]) = Feedback(chatMessages[i])]_vars

\* ------------------------------------------- claims on CognitoAuthManager
\* apiRequest r is inside its getAccessToken / getIdToken call, or about to
\* make it
BeforeToken(r) == req[r].pc \in {"idle", "waitAuth", "preRefresh"}
\* a step in which the getAccessToken / getIdToken call of apiRequest r
\* returns a token (the request goes out with it) or null (apiRequest throws
\* its session-expired error without sending)
ReturnsToken(r) == authManager /\ BeforeToken(r) /\ req'[r].pc = "fetch1"
ReturnsNull(r) ==
    /\ authManager /\ BeforeToken(r)
    /\ req'[r].pc = "thrown" /\ req'[r].result = "session_expired"

\* C15: getAccessToken / getIdToken called with the stored expiry time passed
\* call refreshAccessToken before they return; after a refresh they return the
\* token that refresh stored when it succeeded and null when it failed; the
\* token they return is the stored one and its stored expiry is never past.
C15_ExpiredTokenIsRefreshedFirst ==
    [][\A r \in Requests :
          /\ (authManager /\ req[r].pc \in {"idle", "waitAuth"} /\ req'[r] /= req[r]
                /\ cred.access /= NULL /\ cred.expiry = "expired")
             => /\ req'[r].refreshPre = 1
                /\ req'[r].pc \in {"preRefresh", "thrown"}
          /\ ReturnsToken(r)
             => /\ cred'.expiry /= "expired"
                /\ req'[r].hdr = storedToken(cred')
                /\ req'[r].hdr /= NULL
                /\ req[r].pc = "preRefresh"
                      => /\ issued' = issued + 1
                         /\ req'[r].hdr \in {AccessTokenOf(issued'), IdTokenOf(issued')}
          /\ (req[r].pc = "preRefresh" /\ req'[r] /= req[r])
             => \/ ReturnsToken(r)
                \/ ReturnsNull(r) /\ issued' = issued /\ req'[r].sends = 0]_vars

\* one call found the token expired, refreshed and went out with the new
\* token; another found it expired and got null after a refresh that failed
C15_Witness ==
    /\ \E r \in Requests :
          req[r].refreshPre = 1 /\ req[r].sends >= 1 /\ req[r].hdr.n > 1
    /\ \E r \in Requests :
          req[r].refreshPre = 1 /\ req[r].pc = "thrown" /\ req[r].sends = 0

\* a step in which a refreshAccessToken call ends with outcome o of the
\* provider
RefreshEnds(o) == \E r \in Requests : PreRefreshDone(r, o) \/ Refresh401Done(r, o)

\* C16: when a refresh fails with NotAuthorizedException, access token, id
\* token, refresh token and expiry are all removed; and a getAccessToken /
\* getIdToken call made while nothing is stored returns null, with no request
\* to the provider.
C16_InvalidRefreshTokenSignsOut ==
    /\ [][RefreshEnds("NotAuthorizedException")
          => /\ cred' = SignedOut
             /\ ~isAuthenticated(cred')
             /\ ~refreshReachesProvider(cred')]_vars
    /\ [][\A r \in Requests :
             (authManager /\ cred = SignedOut
                /\ req[r].pc \in {"idle", "waitAuth"} /\ req'[r] /= req[r])
             => /\ ReturnsNull(r)
                /\ req'[r].sends = 0
                /\ issued' = issued]_vars

\* on the verification-plan page a call went out with a stored token, got
\* 401, and its refresh left nothing stored; a call then got null
C16_Witness ==
    /\ page = "verification"
    /\ cred = SignedOut
    /\ \E r \in Requests :
          /\ req[r].hdr /= NULL /\ req[r].first = 401
          /\ req[r].refreshed = "failed" /\ req[r].pc = "thrown"
    /\ \E r \in Requests :
          req[r].pc = "thrown" /\ req[r].result = "session_expired" /\ req[r].sends = 0

\* a step in which a refreshAccessToken call of apiRequest r returns early,
\* without a request to the provider
RefreshEndsEarly(r) ==
    /\ req'[r].refreshPre + req'[r].refresh401 = req[r].refreshPre + req[r].refresh401 + 1
    /\ req'[r].pc = "thrown"

\* C17: whatever makes refreshAccessToken fail (no refresh token stored, SDK
\* not initialised, an error of the provider, a response without
\* authentication result), its caller gets a result with success = false and
\* a message and goes on with it; and when the failure is not the provider's
\* NotAuthorizedException the call leaves the stored credential as it was
\* (on the verification-plan page, whose apiRequest removes nothing itself,
\* the credential is unchanged over the whole step).
C17_RefreshFailureIsAResult ==
    /\ [](\A o \in RefreshOutcomes \ {"ok"} :
             /\ refreshResult(o, issued + 1).success = FALSE
             /\ refreshResult(o, issued + 1).message /= ""
             /\ o /= "NotAuthorizedException"
                   => refreshStore(cred, o, issued + 1) = cred)
    /\ [](~refreshReachesProvider(cred)
             => /\ FailedRefresh(cred).success = FALSE
                /\ FailedRefresh(cred).message /= "")
    /\ [][(page = "verification" /\ \E o \in {"noresult", "error"} : RefreshEnds(o))
             => cred' = cred]_vars
    /\ [][\A r \in Requests :
             (page = "verification" /\ RefreshEndsEarly(r)) => cred' = cred]_vars
    /\ [][\A r \in Requests, o \in RefreshOutcomes \ {"ok"} :
             (PreRefreshDone(r, o) \/ Refresh401Done(r, o))
             => /\ req'[r].pc = "thrown"
                /\ req'[r].result \in {"session_expired", "auth_error"}]_vars

\* on the verification-plan page a refresh has failed, through the provider
\* or at an early return, and the credential is still stored
C17_Witness ==
    /\ page = "verification"
    /\ cred.access /= NULL /\ cred.refresh /= NULL /\ cred.expiry /= "none"
    /\ \E r \in Requests : req[r].refreshed = "failed" /\ req[r].pc = "thrown"
    /\ \E r \in Requests :
          req[r].refreshPre = 1 /\ req[r].pc = "thrown" /\ req[r].sends = 0

\* ------------------------------------------------ claims on local rejection
\* a step in which submitQuery is called with a query box that holds nothing
\* but white space, or with no folder selected
SubmitsNothing ==
    \E q \in Queries, via \in {"click", "enter"}, text \in QueryTexts :
        /\ SubmitQuery(q, via, text)
        /\ trim(text) = <<>> \/ selectedFolderPaths = <<>>

\* C18: submitQuery called with an empty or white-space-only question, or
\* with no folder selected, shows its error and sends no request: no call
\* starts, and transcript, session id and both submit controls stay as they
\* were.
C18_EmptySubmitIsRefusedLocally ==
    [][SubmitsNothing
         => /\ rejected' \in {"empty-query", "no-folder"}
            /\ query' = query
            /\ sent' = sent
            /\ chatMessages' = chatMessages
            /\ chatSessionId' = chatSessionId
            /\ submitQueryBtnDisabled' = submitQueryBtnDisabled
            /\ queryInputDisabled' = queryInputDisabled]_vars

\* after an answered question a submit was refused for its empty text, and
\* the two messages are still there
C18_Witness ==
    /\ rejected = "empty-query"
    /\ selectedFolderPaths /= <<>>
    /\ Len(chatMessages) = 2
    /\ \A q \in Queries : ~Running(q)

\* ------------------------------------------------ claims on the history sidebar
\* a step in which the user picks a history entry while the transcript is
\* not empty and answers no to the confirm() dialog
Declines == HistoryDetailCall(FALSE) /\ chatMessages /= <<>>

\* C19: a history entry picked while the transcript is not empty is loaded
\* only after the user said yes to the dialog; when the user says no, no
\* request is sent and transcript, session id and folder/job selection (in
\* memory and in storage) stay as they were.
C19_HistorySwitchNeedsConfirm ==
    /\ [](hist.pc /= "idle" => hist.answer /= "no")
    /\ [][(hist.pc = "idle" /\ hist'.pc /= "idle" /\ chatMessages /= <<>>)
             => hist'.answer = "yes"]_vars
    /\ [][Declines
             => /\ hist'.pc = "idle"
                /\ sent' = sent
                /\ chatMessages' = chatMessages
                /\ chatSessionId' = chatSessionId
                /\ ssChatSessionId' = ssChatSessionId
                /\ selectedFolderPaths' = selectedFolderPaths
                /\ selectedJobId' = selectedJobId
                /\ folderDefaultJobIds' = folderDefaultJobIds
                /\ lsSelectedFolderPaths' = lsSelectedFolderPaths
                /\ lsSelectedJobId' = lsSelectedJobId]_vars

\* the user has just declined, and the transcript is still there
C19_Witness ==
    /\ hist.pc = "idle"
    /\ hist.answer = "no"
    /\ chatMessages /= <<>>

\* ------------------------------------------------ claims on failing requests
\* the message objects of the transcript
Stored(msgs) ==
    [k \in 1..Len(msgs) |->
        [role |-> msgs[k].role, content |-> msgs[k].content,
         messageId |-> msgs[k].messageId, rating |-> msgs[k].rating,
         comment |-> msgs[k].comment]]

\* a step of a loadHistoryDetail or submitFeedback call up to its request,
\* and a step in which that request fails
CallsOut ==
    \/ \E c \in BOOLEAN : HistoryDetailCall(c)
    \/ \E f \in Feedbacks, i \in 1..MaxMessages, r \in Ratings \cup {NoRating},
          c \in Comments \cup {NoComment} : SubmitFeedback(f, i, r, c)
RequestFails ==
    \/ HistoryDetailFails
    \/ \E f \in Feedbacks, o \in {"notok", "throw"} : FeedbackResponds(f, o)

\* C20: a loadHistoryDetail or submitFeedback call whose request fails
\* changes, neither on its way to the request nor when the failure arrives,
\* the messages of the transcript, the session id or the folder/job selection.
C20_FailureLeavesSessionAlone ==
    [][(CallsOut \/ RequestFails)
         => /\ Stored(chatMessages') = Stored(chatMessages)
            /\ chatSessionId' = chatSessionId
            /\ ssChatSessionId' = ssChatSessionId
            /\ selectedFolderPaths' = selectedFolderPaths
            /\ selectedJobId' = selectedJobId
            /\ folderDefaultJobIds' = folderDefaultJobIds
            /\ lsSelectedFolderPaths' = lsSelectedFolderPaths
            /\ lsSelectedJobId' = lsSelectedJobId]_vars

\* a feedback request on a message of the transcript has failed, the last
\* request sent was a history-detail request that failed too, and the
\* message is still there without rating or comment
C20_Witness ==
    /\ sent.kind = "get-history-detail"
    /\ hist = IdleHist
    /\ \E i \in 1..Len(chatMessages) :
          /\ chatMessages[i].lost
          /\ chatMessages[i].rating = NoRating
          /\ chatMessages[i].comment = NoComment

\* ------------------------------------------------ claims on the stored selection
\* the selection kept in localStorage
StoredSelection == <<lsSelectedFolderPaths, lsSelectedJobId>>
\* a step of a handler the user started on the selection: the apply button of
\* the search target dialog, or a step of a history load the user asked for
ActsOnSelection ==
    \/ \E j \in {NoJob} \cup UserJobIds, c \in BOOLEAN : ApplySearchTarget(j, c)
    \/ hist.pc \in {"fetch", "lookup"} /\ loads' = loads

\* C21: a non-empty stored selection (folder paths or job id) changes only in
\* a step of the apply button or of a history load the user asked for; no
\* page load and no other step removes or replaces it.
C21_StoredSelectionKeptUntilUserActs ==
    [][(StoredSelection /= <<<<>>, NoJob>> /\ StoredSelection' /= StoredSelection)
          => ActsOnSelection]_vars

\* ------------------------------------------------ claims on the request header
\* C22: every request apiRequest has sent, first send or resend, went out
\* with an Authorization header that carries a token, also without an auth
\* manager and with nothing stored.
C22_EveryRequestCarriesBearerToken ==
    \A r \in Requests : req[r].sends > 0 => req[r].hdr /= NULL

\* ------------------------------------------------ claims on the poll loop
\* the message addChatMessage has put at the end of the transcript
LastMessage(msgs) == msgs[Len(msgs)]

\* C23: the status reply completed ends the call with exactly one assistant
\* message appended, carrying the answer and the message id of the reply (a
\* fallback id when the reply has none); the reply failed ends it with the
\* backend's error shown and nothing appended; any other status makes the
\* loop go on to its next round (within the 60 attempts); and a call that has
\* ended sends no further status request.
C23_PollStopsAtCompletedOrFailed ==
    /\ [][\A q \in Queries, hasId \in BOOLEAN :
             StatusResponds(q, "completed", hasId)
             => /\ query'[q].pc = "done" /\ query'[q].outcome = "completed"
                /\ Len(chatMessages') = Len(chatMessages) + 1
                /\ Stored(SubSeq(chatMessages', 1, Len(chatMessages))) = Stored(chatMessages)
                /\ LastMessage(chatMessages').role = "assistant"
                /\ LastMessage(chatMessages').content = <<"a">>
                /\ LastMessage(chatMessages').messageId
                      = (IF hasId THEN ServerMessageId(serverIds')
                         ELSE LocalMessageId(localIds'))]_vars
    /\ [][\A q \in Queries, hasId \in BOOLEAN :
             StatusResponds(q, "failed", hasId)
             => /\ query'[q].pc = "done" /\ query'[q].outcome = "failed"
                /\ chatMessages' = chatMessages]_vars
    /\ [][\A q \in Queries, hasId \in BOOLEAN :
             (StatusResponds(q, "processing", hasId) /\ query[q].attempts < maxAttempts)
             => /\ query'[q].pc = "sleep"
                /\ chatMessages' = chatMessages]_vars
    /\ [][\A q \in Queries :
             query'[q].polls > query[q].polls => query[q].pc = "sleep"]_vars
    /\ [][\A q \in Queries :
             (query[q].pc = "done" /\ query'[q] /= query[q])
             => query'[q].pc = "start" /\ query'[q].polls = 0]_vars

\* a call was answered processing, polled again and was answered failed;
\* the transcript holds the question and no answer
C23_Witness ==
    \E q \in Queries :
        /\ query[q].pc = "done"
        /\ query[q].outcome = "failed"
        /\ query[q].polls = 2
        /\ Len(chatMessages) = 1
        /\ chatMessages[1].role = "user"

\* C24: when the start request is answered with a non-ok response or
\* apiRequest throws, the call ends at once in the catch block, which shows
\* the error and enables both controls; it has sent no status request and
\* appends nothing.
C24_StartFailureEndsWithoutPolling ==
    /\ [][\A q \in Queries, o \in {"notok", "throw"} :
             StartResponds(q, o)
             => /\ query'[q].pc = "done"
                /\ query'[q].outcome = "start-error"
                /\ query'[q].polls = 0
                /\ chatMessages' = chatMessages
                /\ ~submitQueryBtnDisabled' /\ ~queryInputDisabled']_vars
    /\ [](\A q \in Queries :
             (query[q].pc = "done" /\ query[q].outcome = "start-error")
             => query[q].polls = 0)

\* a call ended on its start request; the question is in the transcript
C24_Witness ==
    \E q \in Queries :
        /\ query[q].pc = "done"
        /\ query[q].outcome = "start-error"
        /\ query[q].polls = 0
        /\ Len(chatMessages) = 1
        /\ ~submitQueryBtnDisabled

RefreshesInFlight ==
    Cardinality({r \in Requests : req[r].pc \in {"preRefresh", "refresh401"}}) + bg

\* C26: a 401 on the first send, with an auth manager attached, a refresh
\* token stored and the SDK initialised, starts a refreshAccessToken call of
\* its own whatever other refresh calls are under way, and so does the expiry
\* timer when it finds the token expired or expiring soon; nothing makes a
\* refresh wait for another one.
C26_RefreshIsNotSerialised ==
    /\ [][\A r \in Requests :
             (FetchResponds(r, 401) /\ authManager /\ cred.refresh /= NULL /\ sdk)
             => /\ req'[r].pc = "refresh401"
                /\ req'[r].refresh401 = 1
                /\ RefreshesInFlight' = RefreshesInFlight + 1]_vars
    /\ [][\A initial \in BOOLEAN :
             (ExpiryCheck(initial) /\ cred.refresh /= NULL /\ sdk)
             => /\ bg' = bg + 1
                /\ RefreshesInFlight' = RefreshesInFlight + 1]_vars

\* two apiRequest calls are in the refresh of their 401 branch while a
\* refresh of the expiry timer is under way too
C26_Witness ==
    /\ \A r \in Requests : req[r].pc = "refresh401"
    /\ bg = 1
    /\ RefreshesInFlight = 3

\* ------------------------------------------------ claims on sign-out
\* C30: from the sign-out of handleLogout until the next successful sign-in
\* no access token and no id token is stored and isAuthenticated() is false,
\* whatever refreshAccessToken calls were under way at the sign-out.
C30_SignedOutStaysSignedOut ==
    signedOut => /\ cred.access = NULL
                 /\ cred.id = NULL
                 /\ ~isAuthenticated(cred)

\* ------------------------------------------------ claims on the submit controls
\* C27: from the moment a query is accepted until it has reached its outcome
\* (completed, failed or timed out) the submit button and the question input
\* are disabled.
C27_ControlsDisabledWhileRunning ==
    \A q \in Queries :
        Running(q) => submitQueryBtnDisabled /\ queryInputDisabled

\* ------------------------------------------------ claims on late answers
\* C28: the answer of a query is appended while the current session still is
\* the one whose id the query's start request carried, also when the chat
\* was reset or a history was loaded while the query was polled.
C28_AnswerGoesToItsOwnSession ==
    [][\A q \in Queries, hasId \in BOOLEAN :
          StatusResponds(q, "completed", hasId)
          => query[q].sid = chatSessionId]_vars

\* ------------------------------------------------ claims on the default-job map
\* C29: when a start request without job id is built, the keys of the
\* default-job map are among the selected folder paths, and the map is what a
\* lookup over the current selection has learnt: a lookup that has completed,
\* overlapped no other and was followed by no toggle, so that every selected
\* path with a default job id has its entry.
C29_MapMatchesSelectionAtStart ==
    [][\A q \in Queries :
          (Starts(q) /\ selectedJobId = NoJob)
          => /\ Keys(folderDefaultJobIds) \subseteq Range(selectedFolderPaths)
             /\ settled.done /\ settled.clean
             /\ folderDefaultJobIds = KnownDefaults(settled.got)]_vars

====
